---- MODULE Spec2Model ----
(***************************************************************************)
(* YouTube NLP Assistant browser extension.                                *)
(*                                                                         *)
(* popup/popup.js  : the popup document (tools grid, result panel, the     *)
(*                   timestamp list with its per-segment summary           *)
(*                   containers) and every request it sends to the         *)
(*                   backend at http://localhost:5000.                     *)
(*                                                                         *)
(* content/content.js : the message listener of the content script        *)
(*                   (content.js:63-272), the quick-result overlay it      *)
(*                   puts on the page and the requests it sends.           *)
(*                                                                         *)
(* The popup and the content script run in different documents, share no   *)
(* state and exchange only messages; a behaviour follows one of the two    *)
(* documents (variable script) and sees the other as its environment.      *)
(*                                                                         *)
(* Spec           : the popup or the content script.                       *)
(* SpecContent    : the content script alone.                              *)
(* SpecFallback   : the popup up to a feature's result, with the notice    *)
(*                  that processFeatureWithFallback puts on the page.      *)
(* SpecRender     : rendering of a timestamps response and the click       *)
(*                  handler's reading of the rendered attributes.          *)
(* SpecBackground : the background script (popup.js:474-561) with the      *)
(*                  content script of one tab.                             *)
(*                                                                         *)
(* The DOM of the popup is the program's state: a segment's summary is     *)
(* "absent" while its container is blank, "pending" while the container    *)
(* holds the loading element, "ready"/"failed" once a response handler     *)
(* has written into that element.                                          *)
(***************************************************************************)
EXTENDS Integers, Sequences, FiniteSets, TLC

\* ------------------------------------------------------------------ bounds
\* Card clicks explored in one popup session.
MaxCardClicks == 2
\* /api/segment_summary requests explored in one popup session.
MaxSegmentFetches == 2

\* ------------------------------------------------------- values of the code
NoVideo == "null"
VideoIds == {"v1", "v2"}
Features == {"summarize", "timestamps", "keypoints_wiki", "factcheck"}
Segs == {0, 1}
NoSeg == -1
Dispatches == 1..MaxCardClicks

\* Kinds of tab the popup can be opened on (popup.js:19-21): not a watch
\* page, a watch page whose URL has no v parameter, a watch page of video v1.
TabUrls == {"other", "watch_no_v", "watch_v1"}

\* URLs the page of the tab can move to without a reload.
PageUrls == TabUrls \cup {"watch_v2"}

UrlIsWatch(u) == u \in {"watch_no_v", "watch_v1", "watch_v2"}

UrlVideoParam(u) ==
  IF u = "watch_v1" THEN "v1" ELSE IF u = "watch_v2" THEN "v2" ELSE NoVideo

\* ---------------------------------------------------------------- messages
\* An error message is the text of the Error object: a literal prefix, the
\* interpolated status code (0: none) and the free text.
Msg(prefix, code, text) == [prefix |-> prefix, code |-> code, text |-> text]

NoMsg == Msg("", 0, "")

UnknownError == "Unknown error occurred"

\* `API responded with status ${response.status}`
StatusMsg(code) == Msg("API responded with status ", code, "")

\* Mutant of BodyErrorMsg: the body's error field is ignored.
BodyErrorMsgGeneric(body) == Msg("", 0, UnknownError)

\* new Error(data.error || 'Unknown error occurred'): an absent and an empty
\* error field are both falsy.
BodyErrorMsg(body) ==
  IF body.error \in {"absent", ""} THEN Msg("", 0, UnknownError)
  ELSE Msg("", 0, body.error)

TypeErrorMsg == Msg("", 0, "TypeError: cannot read properties of undefined")
SyntaxErrorMsg == Msg("", 0, "SyntaxError: unexpected token in JSON")
FetchErrorMsg == Msg("", 0, "Failed to fetch")

\* --------------------------------------------------------------- responses
\* What the backend (or the network) can answer to a POST.
StatusCodes == {200, 500}
BodyStatuses == {"success", "error", "failed", "absent"}
ErrorFields == {"absent", "", "quota exceeded"}
Summaries == {"sumA"}

\* One entry of data.timestamps: segment_id is an integer, time a number of
\* seconds held in tenths (125 is 12.5 s).
Entry(segment_id, time) == [segment_id |-> segment_id, time |-> time]

TimestampLists == {<<Entry(0, 0), Entry(1, 125)>>}

\* --------------------------------------------- numbers in HTML attributes
\* Strings are sequences of characters.
DigitChars == <<"0", "1", "2", "3", "4", "5", "6", "7", "8", "9">>

IsDigit(c) == \E d \in 1..10 : DigitChars[d] = c

DigitValue(c) == (CHOOSE d \in 1..10 : DigitChars[d] = c) - 1

RECURSIVE Digits(_)
\* Decimal digits of a non-negative integer
Digits(n) ==
  IF n < 10 THEN <<DigitChars[n + 1]>>
  ELSE Digits(n \div 10) \o <<DigitChars[(n % 10) + 1]>>

\* `${ts.segment_id}` and `${ts.time}` (popup.js:214): Number to string, for
\* a number given in tenths
NumberToString(tenths) ==
  IF tenths % 10 = 0 THEN Digits(tenths \div 10)
  ELSE Digits(tenths \div 10) \o <<".">> \o Digits(tenths % 10)

RECURSIVE LeadingDigits(_)
\* Longest prefix of str made of digits
LeadingDigits(str) ==
  IF str = <<>> \/ ~IsDigit(Head(str)) THEN <<>>
  ELSE <<Head(str)>> \o LeadingDigits(Tail(str))

RECURSIVE DigitsValue(_)
DigitsValue(str) ==
  IF str = <<>> THEN 0
  ELSE DigitsValue(SubSeq(str, 1, Len(str) - 1)) * 10
         + DigitValue(str[Len(str)])

NaN == -1

\* parseInt(str, 10), popup.js:392: the leading digits, NaN without any
ParseInt(str) ==
  IF LeadingDigits(str) = <<>> THEN NaN ELSE DigitsValue(LeadingDigits(str))

\* Mutant of ParseFloat: the fraction is dropped, as parseInt would.
ParseFloatTruncating(str) ==
  IF LeadingDigits(str) = <<>> THEN NaN
  ELSE DigitsValue(LeadingDigits(str)) * 10

\* parseFloat(str), popup.js:391, in tenths: the leading digits and, after a
\* point, the first digit of the fraction
ParseFloat(str) ==
  LET int == LeadingDigits(str)
      rest == SubSeq(str, Len(int) + 1, Len(str))
      frac == IF rest # <<>> /\ Head(rest) = "."
              THEN LeadingDigits(Tail(rest)) ELSE <<>>
  IN IF int = <<>> THEN NaN
     ELSE DigitsValue(int) * 10
            + (IF frac = <<>> THEN 0 ELSE DigitValue(Head(frac)))

\* One .timestamp-item as popup.js:214 writes it: its data-time and
\* data-segment-id attributes. The container inside it has id
\* segment-container-${ts.segment_id}.
TimestampItem(ts) ==
  [dataTime |-> NumberToString(ts.time),
   dataSegmentId |-> NumberToString(ts.segment_id * 10)]

\* data.timestamps.map(ts => item).join(''), popup.js:213-223
RenderTimestamps(timestamps) ==
  [i \in DOMAIN timestamps |-> TimestampItem(timestamps[i])]

\* parseFloat(this.getAttribute('data-time')), popup.js:391
ItemTime(item) == ParseFloat(item.dataTime)

\* parseInt(this.getAttribute('data-segment-id'), 10), popup.js:392
ItemSegmentId(item) == ParseInt(item.dataSegmentId)

\* response.ok
ResponseOk(code) == code >= 200 /\ code <= 299

NoBody ==
  [status |-> "absent", error |-> "absent", payload |-> FALSE,
   summary |-> "undefined", timestamps |-> <<>>]

\* JSON bodies: the status field, the error field, and whether the
\* feature-specific fields (summary, timestamps, keyPoints, sentiment) exist.
\* A success body carries no error field; a body with status "error" or
\* without status carries no feature-specific fields. A body read for its
\* summary or its timestamps carries one of each kind.
Bodies(summaries, lists) ==
  { b \in [status : BodyStatuses, error : ErrorFields, payload : BOOLEAN,
           summary : summaries \cup {"undefined"}, timestamps : lists \cup {<<>>}] :
      /\ b.status = "success" => b.error = "absent"
      /\ b.status \in {"error", "absent"} => ~b.payload
      /\ b.payload => b.summary \in summaries /\ b.timestamps \in lists
      /\ ~b.payload => b.summary = "undefined" /\ b.timestamps = <<>> }

\* net = FALSE: fetch() rejects (backend unreachable).
\* json = FALSE: the body is not JSON, response.json() rejects.
ResponsesWith(bodies) ==
  { [net |-> FALSE, code |-> 0, json |-> FALSE, body |-> NoBody] }
  \cup { [net |-> TRUE, code |-> c, json |-> FALSE, body |-> NoBody] :
           c \in StatusCodes }
  \cup { [net |-> TRUE, code |-> c, json |-> TRUE, body |-> b] :
           c \in StatusCodes, b \in bodies }

SegmentSummaryResponses == ResponsesWith(Bodies(Summaries, {<<>>}))
TimestampsResponses == ResponsesWith(Bodies({"sumA"}, TimestampLists))
OtherResponses == ResponsesWith(Bodies({"sumA"}, {<<>>}))

\* Answers to a POST to path.
Responses(path) ==
  IF path = "/api/segment_summary" THEN SegmentSummaryResponses
  ELSE IF path = "/api/timestamps" THEN TimestampsResponses
  ELSE OtherResponses

\* ------------------------------------------------------------ popup state
VARIABLES
  tabUrl,          \* URL kind of the active tab (environment)
  tabQueried,      \* the chrome.tabs.query callback of popup.js:15 has run
  currentVideoId,  \* popup.js:11
  cardsDisabled,   \* the cards carry class "disabled" (popup.js:53-57)
  toolsHidden,     \* toolsGrid hidden and resultContainer shown
  featureTitle,    \* feature whose title is shown over the result panel
  resultContent,   \* what resultContent.innerHTML holds
  verifying,       \* verifyConnection messages awaiting their callback
  net,             \* HTTP requests in flight
  cardClicks,      \* card clicks so far
  segFetches,      \* /api/segment_summary requests sent so far
  reqCount,        \* per card click: POST requests sent for it
  resultCount,     \* per card click: terminal results written for it
  everReady,       \* segments whose summary has reached ready
  script,          \* the document this behaviour follows
  csCurrentVideoId, \* content.js:2
  overlay,         \* the #yt-nlp-assistant-overlay element of the page
  csNet,           \* HTTP requests of the content script in flight
  messages,        \* messages received by the listener so far
  csCurrentVideoTitle, \* content.js:3
  csInit,          \* initialize(): "pending", "done" or "error" (it threw)
  observing,       \* the MutationObserver of content.js:35 is installed
  loaded,          \* window.ytNlpAssistantLoaded
  mutated,         \* the document has mutated since the last navigation
  lastReply,       \* what the listener answered to the last message
  notice,          \* fallback alone: per card click, the notice put on the page
  timestamps,      \* rendering alone: data.timestamps of the response
  timestampItems,  \* rendering alone: the .timestamp-item elements
  clicked,         \* rendering alone: what the click handler read back
  bgRunning,       \* background alone: the background script is loaded
  installedFired,  \* background alone: chrome.runtime.onInstalled has fired
  removeAllPending, \* background alone: contextMenus.removeAll awaits its callback
  menuItems,       \* background alone: ids of the context-menu items
  onClickedListener, \* background alone: a contextMenus.onClicked listener is registered
  menuClicks,      \* background alone: context-menu clicks so far
  tabInbox         \* background alone: messages sent to the tab, not yet received

popupVars ==
  <<tabQueried, currentVideoId, cardsDisabled, toolsHidden,
    featureTitle, resultContent, verifying, net, cardClicks,
    segFetches, reqCount, resultCount, everReady>>

contentVars ==
  <<csCurrentVideoId, overlay, csNet, messages,
    csCurrentVideoTitle, csInit, observing, loaded, mutated, lastReply>>

renderVars == <<timestamps, timestampItems, clicked>>

backgroundVars ==
  <<bgRunning, installedFired, removeAllPending, menuItems,
    onClickedListener, menuClicks, tabInbox>>

vars ==
  <<tabUrl, popupVars, contentVars, renderVars, backgroundVars, notice,
    script>>

\* ------------------------------------------------------------ result panel
\* One segment-summary-container: content is "none" when the container is
\* not in the document, "empty" when its innerHTML is blank, "pending" when
\* it holds the loading element, "ready"/"failed" when a handler has filled
\* the element. hidden is the container's class "hidden".
NoContainer == [content |-> "none", text |-> NoMsg, hidden |-> FALSE]
EmptyContainer == [content |-> "empty", text |-> NoMsg, hidden |-> FALSE]

\* Text of a segment id inside the ids segment-container-${segmentId} and
\* segment-summary-${segmentId}, popup.js:221, 399
SegmentIdText == [s \in Segs |-> NumberToString(s * 10)]

\* videoId is the videoId parameter of the processFeature call whose
\* response handler rendered the timestamp items and wired their clicks.
Panel(kind, msg, items) ==
  [kind |-> kind, msg |-> msg, items |-> items, videoId |-> NoVideo,
   seg |-> [s \in Segs |->
              IF \E i \in DOMAIN items :
                   items[i].dataSegmentId = SegmentIdText[s]
              THEN EmptyContainer ELSE NoContainer]]

EmptyPanel == Panel("empty", NoMsg, <<>>)
LoadingPanel == Panel("loading", NoMsg, <<>>)
ErrorPanel(msg) == Panel("error", msg, <<>>)

\* document.getElementById(`segment-summary-${segmentId}`) finds an element
HasSummaryElement(panel, s) ==
  panel.seg[s].content \in {"pending", "ready", "failed"}

\* Mutant of ContainerFilled: only a finished summary counts as filled.
ContainerFilledWhenFinished(panel, s) ==
  panel.seg[s].content \in {"ready", "failed"}

\* summaryContainer.innerHTML.trim() !== ''
ContainerFilled(panel, s) ==
  panel.seg[s].content \in {"pending", "ready", "failed"}

\* ---------------------------------------------------------------- requests
\* apiEndpoints[feature] (popup.js:146-151), without the fixed base URL
ApiEndpoint(feature) ==
  CASE feature = "summarize" -> "/api/summarize"
    [] feature = "timestamps" -> "/api/timestamps"
    [] feature = "keypoints_wiki" -> "/api/keypoints_wiki"
    [] feature = "factcheck" -> "/api/factcheck"

SegmentSummaryPath == "/api/segment_summary"

\* A POST in flight. kind names the continuation that will handle the
\* response; dispatch is the card click and fetch the timestamp-item click
\* the request was sent for.
Request(kind, feature, videoId, segmentId, dispatch, fetch) ==
  [kind |-> kind, feature |-> feature, videoId |-> videoId,
   segmentId |-> segmentId, dispatch |-> dispatch, fetch |-> fetch]

\* The fetch of popup.js:167-177: the same body for every feature.
FeatureRequest(feature, videoId, dispatch) ==
  Request("feature", feature, videoId, NoSeg, dispatch, 0)

\* The second fetch of the keypoints_wiki case, popup.js:229-238.
KeypointsWikiRequest(videoId, dispatch) ==
  Request("keypoints_wiki_2", "keypoints_wiki", videoId, NoSeg, dispatch, 0)

\* Mutant of SegmentSummaryRequest: the body's videoId is left undefined.
SegmentSummaryRequestNoVideo(videoId, segmentId, fetch) ==
  Request("segment_summary", "segment_summary", NoVideo, segmentId, 0, fetch)

\* The fetch of popup.js:414-423.
SegmentSummaryRequest(videoId, segmentId, fetch) ==
  Request("segment_summary", "segment_summary", videoId, segmentId, 0, fetch)

\* URL path a request is sent to
RequestPath(r) ==
  IF r.kind = "segment_summary" THEN SegmentSummaryPath
  ELSE IF r.kind = "keypoints_wiki_2" THEN "/api/keypoints_wiki"
  ELSE ApiEndpoint(r.feature)

\* Keys of a request's JSON body, popup.js:172-176, 234-237, 419-422
RequestFields(r) ==
  IF r.kind = "segment_summary" THEN {"videoId", "segmentId"}
  ELSE IF r.kind = "keypoints_wiki_2" THEN {"videoId", "numPoints"}
  ELSE {"videoId", "minLength", "maxLength"}

\* ------------------------------------------------- what a response becomes
Thrown(msg) == [thrown |-> TRUE, msg |-> msg, data |-> NoBody]
Value(body) == [thrown |-> FALSE, msg |-> NoMsg, data |-> body]

\* fetch(...).then(response => { if (!response.ok) throw ...; return
\* response.json(); })   popup.js:178-183, 239-244
CheckedJson(resp) ==
  IF ~resp.net THEN Thrown(FetchErrorMsg)
  ELSE IF ~ResponseOk(resp.code) THEN Thrown(StatusMsg(resp.code))
  ELSE IF ~resp.json THEN Thrown(SyntaxErrorMsg)
  ELSE Value(resp.body)

\* fetch(...).then(response => response.json())   popup.js:424
UncheckedJson(resp) ==
  IF ~resp.net THEN Thrown(FetchErrorMsg)
  ELSE IF ~resp.json THEN Thrown(SyntaxErrorMsg)
  ELSE Value(resp.body)

\* if (data.status === 'error') throw new Error(data.error || ...)
\* popup.js:185-187, 246-248
BodyIsError(body) == body.status = "error"

\* if (data.status === 'success') ... else throw   popup.js:426, 439-441
BodyIsSuccess(body) == body.status = "success"

\* What the .then(data => ...) of popup.js:184-460 does with a body for one
\* feature: "error" (an exception reaches the catch of popup.js:461),
\* "render" (resultContent.innerHTML is assigned) or "refetch" (the
\* keypoints_wiki case sends its own request and returns).
FeatureOutcome(feature, body) ==
  IF BodyIsError(body)
    THEN [act |-> "error", panel |-> ErrorPanel(BodyErrorMsg(body))]
  ELSE IF feature = "summarize"
    THEN [act |-> "render",
          panel |-> Panel("summarize", Msg("", 0, body.summary), <<>>)]
  ELSE IF feature = "timestamps"
    THEN IF body.payload
         THEN [act |-> "render",
               panel |-> Panel("timestamps", NoMsg,
                              RenderTimestamps(body.timestamps))]
         ELSE [act |-> "error", panel |-> ErrorPanel(TypeErrorMsg)]
  ELSE IF feature = "keypoints_wiki"
    THEN [act |-> "refetch", panel |-> EmptyPanel]
  ELSE IF body.payload
    THEN [act |-> "render", panel |-> Panel("factcheck", NoMsg, <<>>)]
    ELSE [act |-> "error", panel |-> ErrorPanel(TypeErrorMsg)]

\* The .then(data => ...) of the second keypoints_wiki fetch, popup.js:245-282
KeypointsOutcome(body) ==
  IF BodyIsError(body)
    THEN [act |-> "error", panel |-> ErrorPanel(BodyErrorMsg(body))]
  ELSE IF body.payload
    THEN [act |-> "render", panel |-> Panel("keypoints_wiki", NoMsg, <<>>)]
    ELSE [act |-> "error", panel |-> ErrorPanel(TypeErrorMsg)]

\* ---------------------------------------------------- content script state
\* Messages to the content script explored per page.
MaxMessages == 2

QuickActions == {"quickSummarize", "quickKeyPointsWiki"}

\* The overlay built by displayQuickResult (content.js:399-543): the value of
\* its data-result-type attribute and what #yt-nlp-assistant-content holds.
\* count is the number of elements with id yt-nlp-assistant-overlay in the
\* document; the other fields describe the one that getElementById finds.
NoOverlay ==
  [present |-> FALSE, resultType |-> "", kind |-> "", msg |-> NoMsg,
   count |-> 0]

LoadingOverlay(resultType) ==
  [present |-> TRUE, resultType |-> resultType, kind |-> "loading",
   msg |-> NoMsg, count |-> 1]

\* Mutant of removeQuickResult: the element found is left in the document.
removeQuickResultNever(ov) == ov

\* removeQuickResult(), content.js:558-563: the element that getElementById
\* finds is removed from document.body, and nothing happens without one.
removeQuickResult(ov) ==
  IF ov.count = 0 THEN ov
  ELSE IF ov.count = 1 THEN NoOverlay
  ELSE [ov EXCEPT !.count = @ - 1]

\* displayQuickResult(loadingMessage, resultType), content.js:399-543:
\* removeQuickResult() is called, then a new overlay with the loading
\* spinner is appended to document.body.  An element left in the document
\* stands before the new one and stays the one that getElementById finds.
displayQuickResult(ov, resultType) ==
  LET rest == removeQuickResult(ov)
  IN IF rest.count = 0 THEN LoadingOverlay(resultType)
     ELSE [rest EXCEPT !.count = @ + 1]

\* Second argument of displayQuickResult, content.js:104, 149
ResultType(action) ==
  IF action = "quickSummarize" THEN "summary" ELSE "key_points_wiki"

\* URL path of a quick action, content.js:105, 150
QuickPath(action) ==
  IF action = "quickSummarize" THEN "/api/summarize"
  ELSE "/api/keypoints_wiki"

\* Keys of the JSON body, content.js:110-114, 155-158
QuickFields(action) ==
  IF action = "quickSummarize" THEN {"videoId", "minLength", "maxLength"}
  ELSE {"videoId", "numPoints"}

\* `Error generating summary: ${error.message}`, content.js:137, 263
QuickErrorPrefix(action) ==
  IF action = "quickSummarize" THEN "Error generating summary: "
  ELSE "Error generating key points: "

\* updateQuickResult(resultHtml), content.js:546-555: the content element is
\* looked up by id; without it nothing is written.
updateQuickResult(ov, kind, msg) ==
  IF ov.present THEN [ov EXCEPT !.kind = kind, !.msg = msg] ELSE ov

\* What the handlers of content.js:116-141, 160-267 pass to
\* updateQuickResult for one response.
QuickOutcome(action, resp) ==
  LET j == CheckedJson(resp)
      err(m) == [kind |-> "error",
                 msg |-> Msg(QuickErrorPrefix(action), m.code, m.text)]
  IN IF j.thrown THEN err(j.msg)
     ELSE IF ~BodyIsSuccess(j.data) THEN err(BodyErrorMsg(j.data))
     ELSE IF action = "quickSummarize"
       THEN [kind |-> "summary", msg |-> Msg("", 0, j.data.summary)]
     ELSE IF j.data.payload
       THEN [kind |-> "key_points_wiki", msg |-> NoMsg]
       ELSE err(TypeErrorMsg)

\* currentVideoTitle, content.js:3, 19-24
NoTitle == "null"
DefaultTitle == "YouTube Video"

\* Text of the title element of the page at URL u, when it has one
TitleOf(u) == IF u = "watch_v2" THEN "title v2" ELSE "title v1"

\* What document.querySelector(title selectors) can find on the page at u:
\* no element ("none") or the element with the page's title
PageTitles(u) == IF UrlIsWatch(u) THEN {"none", TitleOf(u)} ELSE {"none"}

\* tryGetSubtitles() is called at content.js:26 and 51; content.js declares
\* no function of that name, so the call throws a ReferenceError.
tryGetSubtitlesDeclared == FALSE

\* What the listener answered: how many times sendResponse was called for
\* the message, the status field and the title field of the answer.
Reply(action, responses, status, title) ==
  [action |-> action, responses |-> responses, status |-> status,
   title |-> title]

NoReply == Reply("", 0, "", NoTitle)

\* Actions for which the listener of content.js:63-272 has no branch: it
\* runs to its end without calling sendResponse.  The quickTimestamps
\* statements of content.js:274-392 stand after the listener's closing
\* brace, outside every function.
UnhandledActions == {"quickTimestamps"}

\* ------------------------------------------------------------------- Init
\* Nothing was clicked: index 0.
NoClick == [index |-> 0, time |-> NaN, segmentId |-> NaN]

Init ==
  /\ script \in {"popup", "content"}
  /\ timestamps = <<>>
  /\ timestampItems = <<>>
  /\ clicked = NoClick
  /\ notice = [d \in Dispatches |-> "none"]
  /\ tabUrl \in TabUrls
  /\ tabQueried = FALSE
  /\ currentVideoId = NoVideo
  /\ cardsDisabled = FALSE
  /\ toolsHidden = FALSE
  /\ featureTitle = ""
  /\ resultContent = EmptyPanel
  /\ verifying = {}
  /\ net = {}
  /\ cardClicks = 0
  /\ segFetches = 0
  /\ reqCount = [d \in Dispatches |-> 0]
  /\ resultCount = [d \in Dispatches |-> 0]
  /\ everReady = {}
  /\ csCurrentVideoId = NoVideo
  /\ csCurrentVideoTitle = NoTitle
  /\ csInit = "pending"
  /\ observing = FALSE
  /\ loaded = FALSE
  /\ mutated = FALSE
  /\ lastReply = NoReply
  /\ overlay = NoOverlay
  /\ csNet = {}
  /\ messages = 0
  /\ bgRunning = FALSE
  /\ installedFired = FALSE
  /\ removeAllPending = FALSE
  /\ menuItems = {}
  /\ onClickedListener = FALSE
  /\ menuClicks = 0
  /\ tabInbox = <<>>

\* ---------------------------------------------------------- popup actions
\* chrome.tabs.query callback, popup.js:15-59
TabsQueryCallback ==
  /\ ~tabQueried
  /\ tabQueried' = TRUE
  /\ IF UrlIsWatch(tabUrl)
       THEN /\ currentVideoId' = UrlVideoParam(tabUrl)
            /\ UNCHANGED cardsDisabled
       ELSE /\ cardsDisabled' = TRUE
            /\ UNCHANGED currentVideoId
  /\ UNCHANGED <<tabUrl, toolsHidden, featureTitle, resultContent, verifying,
                 net, cardClicks, segFetches, reqCount, resultCount,
                 everReady>>

\* Mutant of CardClickIgnored: only the class "disabled" is tested.
CardClickIgnoredWhenDisabled == cardsDisabled

\* if (!currentVideoId || this.classList.contains('disabled')) return;
\* popup.js:65-67
CardClickIgnored == currentVideoId = NoVideo \/ cardsDisabled

\* Card click handler, popup.js:63-93. The cards can be clicked while the
\* tools grid is shown.
CardClick(feature) ==
  /\ ~toolsHidden
  /\ cardClicks < MaxCardClicks
  /\ cardClicks' = cardClicks + 1
  /\ IF CardClickIgnored
       THEN UNCHANGED <<toolsHidden, featureTitle, resultContent, verifying>>
       ELSE /\ toolsHidden' = TRUE
            /\ featureTitle' = feature
            /\ resultContent' = LoadingPanel
            /\ verifying' = verifying \cup
                 {[dispatch |-> cardClicks + 1, feature |-> feature,
                   videoId |-> currentVideoId]}
  /\ UNCHANGED <<tabUrl, tabQueried, currentVideoId, cardsDisabled, net,
                 segFetches, reqCount, resultCount, everReady>>

\* processFeature(feature, videoId), popup.js:144-177: every card's feature
\* has an endpoint, so the fetch is sent.
processFeature(feature, videoId, dispatch) ==
  /\ net' = net \cup {FeatureRequest(feature, videoId, dispatch)}
  /\ reqCount' = [reqCount EXCEPT ![dispatch] = @ + 1]

\* Callback of the verifyConnection message, popup.js:83-90: with an answer
\* processFeature runs, without one processFeatureWithFallback
\* (popup.js:96-133), which injects a notice into the page of the tab and
\* ends in the same processFeature call.  The notice is an element of the
\* page that no handler of the popup or of the content script reads, so
\* both outcomes are one step here; SpecFallback follows the notice.
VerifyConnectionCallback(v) ==
  /\ v \in verifying
  /\ verifying' = verifying \ {v}
  /\ processFeature(v.feature, v.videoId, v.dispatch)
  /\ UNCHANGED <<tabUrl, tabQueried, currentVideoId, cardsDisabled,
                 toolsHidden, featureTitle, resultContent, cardClicks,
                 segFetches, resultCount, everReady>>

\* Back button, popup.js:135-142: shows the tools grid and removes every
\* .segment-summary element, which leaves its container blank.
RemoveSegmentSummaries(panel) ==
  [panel EXCEPT !.seg =
     [s \in Segs |->
        IF HasSummaryElement(panel, s)
        THEN [panel.seg[s] EXCEPT !.content = "empty", !.text = NoMsg]
        ELSE panel.seg[s]]]

BackButtonClick ==
  /\ toolsHidden
  /\ toolsHidden' = FALSE
  /\ resultContent' = RemoveSegmentSummaries(resultContent)
  /\ UNCHANGED <<tabUrl, tabQueried, currentVideoId, cardsDisabled,
                 featureTitle, verifying, net, cardClicks,
                 segFetches, reqCount, resultCount, everReady>>

\* Response to the fetch of popup.js:167, handled by popup.js:178-470.
FeatureResponse(r, resp) ==
  /\ r \in net
  /\ r.kind = "feature"
  /\ LET j == CheckedJson(resp)
         o == IF j.thrown
              THEN [act |-> "error", panel |-> ErrorPanel(j.msg)]
              ELSE FeatureOutcome(r.feature, j.data)
     IN IF o.act = "refetch"
          THEN /\ net' = (net \ {r}) \cup
                    {KeypointsWikiRequest(r.videoId, r.dispatch)}
               /\ reqCount' = [reqCount EXCEPT ![r.dispatch] = @ + 1]
               /\ UNCHANGED <<resultContent, resultCount>>
          ELSE /\ net' = net \ {r}
               /\ resultContent' =
                    IF o.panel.kind = "timestamps"
                    THEN [o.panel EXCEPT !.videoId = r.videoId]
                    ELSE o.panel
               /\ resultCount' = [resultCount EXCEPT ![r.dispatch] = @ + 1]
               /\ UNCHANGED reqCount
  /\ UNCHANGED <<tabUrl, tabQueried, currentVideoId, cardsDisabled,
                 toolsHidden, featureTitle, verifying, cardClicks,
                 segFetches, everReady>>

\* Response to the second keypoints_wiki fetch, popup.js:239-292.
KeypointsWikiResponse(r, resp) ==
  /\ r \in net
  /\ r.kind = "keypoints_wiki_2"
  /\ LET j == CheckedJson(resp)
         o == IF j.thrown
              THEN [act |-> "error", panel |-> ErrorPanel(j.msg)]
              ELSE KeypointsOutcome(j.data)
     IN /\ net' = net \ {r}
        /\ resultContent' = o.panel
        /\ resultCount' = [resultCount EXCEPT ![r.dispatch] = @ + 1]
  /\ UNCHANGED <<tabUrl, tabQueried, currentVideoId, cardsDisabled,
                 toolsHidden, featureTitle, verifying, cardClicks,
                 segFetches, reqCount, everReady>>

\* The timestamp items are in the document and shown.
TimestampItemShown(s) ==
  /\ toolsHidden
  /\ resultContent.kind = "timestamps"
  /\ resultContent.seg[s].content # "none"

\* Mutant of ToggleHidden: hiding also empties the container.
ToggleHiddenAndClear(panel, s) ==
  [panel EXCEPT !.seg[s].hidden = ~panel.seg[s].hidden,
                !.seg[s].content = "empty", !.seg[s].text = NoMsg]

\* classList toggle of popup.js:401-405
ToggleHidden(panel, s) ==
  [panel EXCEPT !.seg[s].hidden = ~panel.seg[s].hidden]

\* summaryContainer.innerHTML = loading element, popup.js:408-413
ShowLoading(panel, s) ==
  [panel EXCEPT !.seg[s].content = "pending", !.seg[s].text = NoMsg]

\* Click on a timestamp item, popup.js:390-423: the navigateToTime message
\* is sent, then a filled container is toggled and nothing else happens; a
\* blank one gets the loading element and the request is sent.
TimestampItemClick(s) ==
  /\ TimestampItemShown(s)
  /\ IF ContainerFilled(resultContent, s)
       THEN /\ resultContent' = ToggleHidden(resultContent, s)
            /\ UNCHANGED <<net, segFetches>>
       ELSE /\ segFetches < MaxSegmentFetches
            /\ resultContent' = ShowLoading(resultContent, s)
            /\ net' = net \cup
                 {SegmentSummaryRequest(currentVideoId, s, segFetches + 1)}
            /\ segFetches' = segFetches + 1
  /\ UNCHANGED <<tabUrl, tabQueried, currentVideoId, cardsDisabled,
                 toolsHidden, featureTitle, verifying, cardClicks, reqCount,
                 resultCount, everReady>>

\* Success branch of popup.js:426-438: the summary is written into the
\* element and the Hide Summary button is wired.
WriteSummary(panel, s, summary) ==
  [panel EXCEPT !.seg[s].content = "ready",
                !.seg[s].text = Msg("", 0, summary)]

\* catch of popup.js:443-456: the error text is written into the element.
WriteSummaryError(panel, s, msg) ==
  [panel EXCEPT !.seg[s].content = "failed", !.seg[s].text = msg]

\* What the handlers of popup.js:424-456 leave in the panel. A missing
\* element makes the success branch throw a TypeError, and makes the catch
\* throw again: the rejection is unhandled and the panel is unchanged.
SegmentSummaryOutcome(panel, s, resp) ==
  LET j == UncheckedJson(resp)
      failure == IF j.thrown THEN j.msg
                 ELSE IF ~BodyIsSuccess(j.data) THEN BodyErrorMsg(j.data)
                 ELSE TypeErrorMsg
  IN IF ~HasSummaryElement(panel, s) THEN panel
     ELSE IF ~j.thrown /\ BodyIsSuccess(j.data)
          THEN WriteSummary(panel, s, j.data.summary)
          ELSE WriteSummaryError(panel, s, failure)

\* The promise chain of popup.js:424-456 ends in a rejection that nothing
\* handles: the catch of popup.js:443 is reached (fetch or json() rejected,
\* the body is no success, or the success branch found no element to write
\* into) and its own getElementById(...).innerHTML finds no element.
SegmentSummaryUnhandled(panel, s, resp) ==
  LET j == UncheckedJson(resp)
      caught == \/ j.thrown
                \/ ~BodyIsSuccess(j.data)
                \/ ~HasSummaryElement(panel, s)
  IN caught /\ ~HasSummaryElement(panel, s)

\* Response to the fetch of popup.js:414.
SegmentSummaryResponse(r, resp) ==
  /\ r \in net
  /\ r.kind = "segment_summary"
  /\ net' = net \ {r}
  /\ resultContent' = SegmentSummaryOutcome(resultContent, r.segmentId, resp)
  /\ everReady' =
       IF resultContent'.seg[r.segmentId].content = "ready"
       THEN everReady \cup {r.segmentId} ELSE everReady
  /\ UNCHANGED <<tabUrl, tabQueried, currentVideoId, cardsDisabled,
                 toolsHidden, featureTitle, verifying, cardClicks,
                 segFetches, reqCount, resultCount>>

\* classList.add('hidden') of popup.js:437, 454
HideContainer(panel, s) == [panel EXCEPT !.seg[s].hidden = TRUE]

\* Click on the Hide Summary / Close button of a shown summary,
\* popup.js:434-438, 451-455; stopPropagation keeps the item's handler out.
CloseSummaryBtnClick(s) ==
  /\ TimestampItemShown(s)
  /\ resultContent.seg[s].content \in {"ready", "failed"}
  /\ ~resultContent.seg[s].hidden
  /\ resultContent' = HideContainer(resultContent, s)
  /\ UNCHANGED <<tabUrl, tabQueried, currentVideoId, cardsDisabled,
                 toolsHidden, featureTitle, verifying, net, cardClicks, segFetches, reqCount, resultCount, everReady>>

\* -------------------------------------------------- content script actions
\* initialize(), content.js:7-32, called once when the page has loaded
\* (content.js:628-632).  On a watch page the identifier and the title are
\* set, then tryGetSubtitles() is called before observeVideoChanges() and
\* before the loaded flag is set.
initialize(titleEl) ==
  /\ csInit = "pending"
  /\ IF UrlIsWatch(tabUrl)
       THEN /\ csCurrentVideoId' = UrlVideoParam(tabUrl)
            /\ csCurrentVideoTitle' =
                 IF titleEl # "none" THEN titleEl ELSE DefaultTitle
            /\ IF tryGetSubtitlesDeclared
                 THEN observing' = TRUE /\ loaded' = TRUE /\ csInit' = "done"
                 ELSE UNCHANGED <<observing, loaded>> /\ csInit' = "error"
       ELSE /\ loaded' = TRUE
            /\ csInit' = "done"
            /\ UNCHANGED <<csCurrentVideoId, csCurrentVideoTitle, observing>>
  /\ UNCHANGED <<tabUrl, overlay, csNet, messages,
                 mutated, lastReply>>

\* The page moves to another URL without a reload (environment).
Navigate(u) ==
  /\ u # tabUrl
  /\ tabUrl' = u
  /\ mutated' = FALSE
  /\ UNCHANGED <<csCurrentVideoId, overlay, csNet, messages,
                 csCurrentVideoTitle, csInit, observing, loaded, lastReply>>

\* The document mutates; the callback of content.js:35-55 runs when the
\* observer is installed: a new v parameter replaces the identifier, and the
\* title is replaced when a title element is found.
DocumentMutation(titleEl) ==
  /\ mutated' = TRUE
  /\ IF /\ observing
        /\ UrlIsWatch(tabUrl)
        /\ UrlVideoParam(tabUrl) \notin {NoVideo, csCurrentVideoId}
       THEN /\ csCurrentVideoId' = UrlVideoParam(tabUrl)
            /\ csCurrentVideoTitle' =
                 IF titleEl # "none" THEN titleEl ELSE csCurrentVideoTitle
       ELSE UNCHANGED <<csCurrentVideoId, csCurrentVideoTitle>>
  /\ UNCHANGED <<tabUrl, overlay, csNet, messages,
                 csInit, observing, loaded, lastReply>>

\* navigateToVideoTime(seconds), content.js:566-626: true when
\* document.querySelector('video') finds an element, false otherwise.
navigateToVideoTime(video) == video

\* navigateToTime message, content.js:66-71
NavigateToTimeMessage(video) ==
  /\ messages < MaxMessages
  /\ messages' = messages + 1
  /\ lastReply' = Reply("navigateToTime", 1,
                        IF navigateToVideoTime(video) THEN "success" ELSE "error",
                        NoTitle)
  /\ UNCHANGED <<tabUrl, csCurrentVideoId, overlay, csNet,
                 csCurrentVideoTitle, csInit, observing,
                 loaded, mutated>>

\* getVideoDetails message, content.js:73-95: a missing or default title is
\* looked up again, then {id, title, hasSubtitles, url} is sent.
GetVideoDetailsMessage(titleEl) ==
  /\ messages < MaxMessages
  /\ messages' = messages + 1
  /\ csCurrentVideoTitle' =
       IF csCurrentVideoTitle \in {NoTitle, DefaultTitle} /\ titleEl # "none"
       THEN titleEl ELSE csCurrentVideoTitle
  /\ lastReply' = Reply("getVideoDetails", 1, "", csCurrentVideoTitle')
  /\ UNCHANGED <<tabUrl, csCurrentVideoId, overlay, csNet,
                 csInit, observing, loaded, mutated>>

\* verifyConnection message, content.js:97-100
VerifyConnectionMessage ==
  /\ messages < MaxMessages
  /\ messages' = messages + 1
  /\ lastReply' = Reply("verifyConnection", 1, "connected", NoTitle)
  /\ UNCHANGED <<tabUrl, csCurrentVideoId, overlay, csNet,
                 csCurrentVideoTitle, csInit, observing,
                 loaded, mutated>>

\* A message whose action has no branch in the listener: nothing is done
\* and sendResponse is not called.
UnhandledMessage(action) ==
  /\ messages < MaxMessages
  /\ messages' = messages + 1
  /\ lastReply' = Reply(action, 0, "", NoTitle)
  /\ UNCHANGED <<tabUrl, csCurrentVideoId, overlay, csNet,
                 csCurrentVideoTitle, csInit, observing,
                 loaded, mutated>>

\* quickSummarize / quickKeyPointsWiki message, content.js:102-145, 147-271:
\* displayQuickResult replaces the overlay by a loading one, the request is
\* sent with the tracked video identifier, and the sender is answered
\* {status: 'processing'}.
QuickMessage(action) ==
  /\ messages < MaxMessages
  /\ messages' = messages + 1
  /\ overlay' = displayQuickResult(overlay, ResultType(action))
  /\ csNet' = csNet \cup
       {[action |-> action, videoId |-> csCurrentVideoId,
         message |-> messages + 1]}
  /\ lastReply' = Reply(action, 1, "processing", NoTitle)
  /\ UNCHANGED <<tabUrl, csCurrentVideoId,
                 csCurrentVideoTitle, csInit, observing, loaded, mutated>>

\* Response to the fetch of content.js:105 or 150.
QuickResponse(r, resp) ==
  /\ r \in csNet
  /\ csNet' = csNet \ {r}
  /\ LET o == QuickOutcome(r.action, resp)
     IN overlay' = updateQuickResult(overlay, o.kind, o.msg)
  /\ UNCHANGED <<tabUrl, csCurrentVideoId, messages,
                 csCurrentVideoTitle, csInit, observing, loaded, mutated,
                 lastReply>>

\* Click on the close button of the overlay, content.js:449: it calls
\* removeQuickResult().
CloseButtonClick ==
  /\ overlay.present
  /\ overlay' = removeQuickResult(overlay)
  /\ UNCHANGED <<tabUrl, csCurrentVideoId, csNet, messages, csCurrentVideoTitle, csInit, observing, loaded,
                 mutated, lastReply>>

\* ------------------------------------------------------------ specification
\* A step of the popup leaves the page alone, and the other way round.
InPopup ==
  /\ script = "popup"
  /\ UNCHANGED <<contentVars, renderVars, backgroundVars, notice, script>>

InContent ==
  /\ script = "content"
  /\ UNCHANGED <<popupVars, renderVars, backgroundVars, notice, script>>

Next ==
  \/ InPopup /\ TabsQueryCallback
  \/ InPopup /\ \E f \in Features : CardClick(f)
  \/ InPopup /\ \E v \in verifying : VerifyConnectionCallback(v)
  \/ InPopup /\ BackButtonClick
  \/ InPopup /\ \E r \in net : \E resp \in Responses(RequestPath(r)) :
       FeatureResponse(r, resp)
  \/ InPopup /\ \E r \in net : \E resp \in Responses(RequestPath(r)) :
       KeypointsWikiResponse(r, resp)
  \/ InPopup /\ \E i \in DOMAIN resultContent.items :
       TimestampItemClick(ItemSegmentId(resultContent.items[i]))
  \/ InPopup /\ \E r \in net : \E resp \in Responses(RequestPath(r)) :
       SegmentSummaryResponse(r, resp)
  \/ InPopup /\ \E s \in Segs : CloseSummaryBtnClick(s)
  \/ InContent /\ \E t \in PageTitles(tabUrl) : initialize(t)
  \/ InContent /\ \E u \in PageUrls : Navigate(u)
  \/ InContent /\ \E t \in PageTitles(tabUrl) : DocumentMutation(t)
  \/ InContent /\ \E video \in BOOLEAN : NavigateToTimeMessage(video)
  \/ InContent /\ \E t \in PageTitles(tabUrl) : GetVideoDetailsMessage(t)
  \/ InContent /\ VerifyConnectionMessage
  \/ InContent /\ \E a \in UnhandledActions : UnhandledMessage(a)
  \/ InContent /\ \E a \in QuickActions : QuickMessage(a)
  \/ InContent /\ \E r \in csNet : \E resp \in Responses(QuickPath(r.action)) :
       QuickResponse(r, resp)
  \/ InContent /\ CloseButtonClick

Spec == Init /\ [][Next]_vars

\* --------------------------------------------------- the content script alone
\* The page of one tab with its content script, the popup left out.
InitContent == Init /\ script = "content"

NextContent ==
  \/ InContent /\ \E t \in PageTitles(tabUrl) : initialize(t)
  \/ InContent /\ \E u \in PageUrls : Navigate(u)
  \/ InContent /\ \E t \in PageTitles(tabUrl) : DocumentMutation(t)
  \/ InContent /\ \E video \in BOOLEAN : NavigateToTimeMessage(video)
  \/ InContent /\ \E t \in PageTitles(tabUrl) : GetVideoDetailsMessage(t)
  \/ InContent /\ VerifyConnectionMessage
  \/ InContent /\ \E a \in UnhandledActions : UnhandledMessage(a)
  \/ InContent /\ \E a \in QuickActions : QuickMessage(a)
  \/ InContent /\ \E r \in csNet : \E resp \in Responses(QuickPath(r.action)) :
       QuickResponse(r, resp)
  \/ InContent /\ CloseButtonClick

SpecContent == InitContent /\ [][NextContent]_vars

\* ------------------------------------------------------ the fallback path
\* The popup up to the display of a feature's result, with the notice that
\* processFeatureWithFallback injects into the page of the tab
\* (popup.js:96-133).  notice[d] is what the notice of card click d shows:
\* "none" (not injected, or removed), "processing" or "complete".

\* Callback of the verifyConnection message without an answer,
\* popup.js:86-89 and 96-133: the notice is appended to the page with its
\* "Processing ... request" text, then processFeature is called.
processFeatureWithFallback(v) ==
  /\ v \in verifying
  /\ verifying' = verifying \ {v}
  /\ notice' = [notice EXCEPT ![v.dispatch] = "processing"]
  /\ processFeature(v.feature, v.videoId, v.dispatch)
  /\ UNCHANGED <<tabUrl, tabQueried, currentVideoId, cardsDisabled,
                 toolsHidden, featureTitle, resultContent, cardClicks,
                 segFetches, resultCount, everReady>>

\* setTimeout(..., 2000) of popup.js:117-126: the notice's text becomes
\* "Analysis complete!".
NoticeCompleteTimer(d) ==
  /\ notice[d] = "processing"
  /\ notice' = [notice EXCEPT ![d] = "complete"]
  /\ UNCHANGED <<tabUrl, popupVars>>

\* setTimeout(..., 3000) of popup.js:123-125: the notice is removed.
NoticeRemoveTimer(d) ==
  /\ notice[d] = "complete"
  /\ notice' = [notice EXCEPT ![d] = "none"]
  /\ UNCHANGED <<tabUrl, popupVars>>

InitFallback == Init /\ script = "popup"

InFallback == UNCHANGED <<contentVars, renderVars, backgroundVars, script>>

NextFallback ==
  \/ InFallback /\ TabsQueryCallback /\ UNCHANGED notice
  \/ InFallback /\ UNCHANGED notice /\ \E f \in Features : CardClick(f)
  \/ InFallback /\ UNCHANGED notice
       /\ \E v \in verifying : VerifyConnectionCallback(v)
  \/ InFallback /\ \E v \in verifying : processFeatureWithFallback(v)
  \/ InFallback /\ \E d \in Dispatches : NoticeCompleteTimer(d)
  \/ InFallback /\ \E d \in Dispatches : NoticeRemoveTimer(d)
  \/ InFallback /\ BackButtonClick /\ UNCHANGED notice
  \/ InFallback /\ UNCHANGED notice
       /\ \E r \in net : \E resp \in Responses(RequestPath(r)) :
            FeatureResponse(r, resp)
  \/ InFallback /\ UNCHANGED notice
       /\ \E r \in net : \E resp \in Responses(RequestPath(r)) :
            KeypointsWikiResponse(r, resp)

SpecFallback == InitFallback /\ [][NextFallback]_vars

\* ------------------------------------------- rendering of the timestamps
\* The rendering of one /api/timestamps response and the click handler's
\* reading of the rendered attributes (popup.js:207-227, 389-398), for every
\* response of up to MaxEntries entries.
MaxEntries == 2

EntryIds == 0..2
EntryTimes == {0, 5, 125, 600}

UniqueIds(list) ==
  \A i, j \in DOMAIN list : list[i].segment_id = list[j].segment_id => i = j

\* Timestamp lists with unique segment_id values
EntryLists ==
  { list \in UNION { [1..n -> [segment_id : EntryIds, time : EntryTimes]] :
                       n \in 0..MaxEntries } : UniqueIds(list) }

InitRender ==
  /\ script = "popup"
  /\ tabUrl = "watch_v1"
  /\ timestamps \in EntryLists
  /\ notice = [d \in Dispatches |-> "none"]
  /\ timestampItems = <<>>
  /\ clicked = NoClick
  /\ tabQueried = FALSE
  /\ currentVideoId = NoVideo
  /\ cardsDisabled = FALSE
  /\ toolsHidden = FALSE
  /\ featureTitle = ""
  /\ resultContent = EmptyPanel
  /\ verifying = {}
  /\ net = {}
  /\ cardClicks = 0
  /\ segFetches = 0
  /\ reqCount = [d \in Dispatches |-> 0]
  /\ resultCount = [d \in Dispatches |-> 0]
  /\ everReady = {}
  /\ csCurrentVideoId = NoVideo
  /\ csCurrentVideoTitle = NoTitle
  /\ csInit = "pending"
  /\ observing = FALSE
  /\ loaded = FALSE
  /\ mutated = FALSE
  /\ lastReply = NoReply
  /\ overlay = NoOverlay
  /\ csNet = {}
  /\ messages = 0
  /\ bgRunning = FALSE
  /\ installedFired = FALSE
  /\ removeAllPending = FALSE
  /\ menuItems = {}
  /\ onClickedListener = FALSE
  /\ menuClicks = 0
  /\ tabInbox = <<>>

\* The timestamps case of popup.js:207-227 builds the items.
RenderTimestampsResult ==
  /\ timestampItems = <<>>
  /\ timestamps # <<>>
  /\ timestampItems' = RenderTimestamps(timestamps)
  /\ UNCHANGED <<timestamps, clicked>>

\* The click handler of popup.js:390-398 reads the attributes of item i.
ReadClickedItem(i) ==
  /\ i \in DOMAIN timestampItems
  /\ clicked' = [index |-> i, time |-> ItemTime(timestampItems[i]),
                 segmentId |-> ItemSegmentId(timestampItems[i])]
  /\ UNCHANGED <<timestamps, timestampItems>>

NextRender ==
  \/ RenderTimestampsResult /\ UNCHANGED <<tabUrl, popupVars, contentVars, backgroundVars, notice, script>>
  \/ \E i \in 1..MaxEntries :
       ReadClickedItem(i) /\ UNCHANGED <<tabUrl, popupVars, contentVars, backgroundVars, notice, script>>

SpecRender == InitRender /\ [][NextRender]_vars

\* ------------------------------------------------- the background script
\* The background script (popup.js:474-561) with the page of one tab.  The
\* script is loaded when the extension is installed, the browser unloads it
\* when it is idle and loads it again for the next event; the context-menu
\* items belong to the browser and outlive the script.

\* Context-menu clicks explored.
MaxMenuClicks == 2

\* The items created by popup.js:528-550
ParentMenuItem == "youtube-nlp-assistant"
ClickableMenuItems == {"quick-summarize", "quick-timestamps"}

\* The message the onClicked listener sends for an item, popup.js:555-559
MenuAction(item) ==
  IF item = "quick-summarize" THEN "quickSummarize" ELSE "quickTimestamps"

\* The script is loaded and its top level runs: the listeners of
\* popup.js:477, 494 and 522 are registered; no
\* chrome.contextMenus.onClicked listener is registered at the top level.
BackgroundStart ==
  /\ ~bgRunning
  /\ bgRunning' = TRUE
  /\ onClickedListener' = FALSE
  /\ UNCHANGED <<installedFired, removeAllPending, menuItems, menuClicks,
                 tabInbox, tabUrl, contentVars>>

\* chrome.runtime.onInstalled fires once, in the run that follows the
\* installation.  The listener of popup.js:522-561 calls
\* contextMenus.removeAll and registers the onClicked listener.
OnInstalled ==
  /\ bgRunning
  /\ ~installedFired
  /\ installedFired' = TRUE
  /\ removeAllPending' = TRUE
  /\ onClickedListener' = TRUE
  /\ UNCHANGED <<bgRunning, menuItems, menuClicks, tabInbox, tabUrl,
                 contentVars>>

\* Callback of contextMenus.removeAll, popup.js:526-551: every item is gone
\* and the three items are created.
RemoveAllCallback ==
  /\ removeAllPending
  /\ removeAllPending' = FALSE
  /\ menuItems' = {ParentMenuItem} \cup ClickableMenuItems
  /\ UNCHANGED <<bgRunning, installedFired, onClickedListener, menuClicks,
                 tabInbox, tabUrl, contentVars>>

\* The browser unloads the idle script: the listeners of that run are gone.
BackgroundUnload ==
  /\ bgRunning
  /\ installedFired
  /\ ~removeAllPending
  /\ bgRunning' = FALSE
  /\ onClickedListener' = FALSE
  /\ UNCHANGED <<installedFired, removeAllPending, menuItems, menuClicks,
                 tabInbox, tabUrl, contentVars>>

\* A click on a context-menu item of a watch page (documentUrlPatterns,
\* popup.js:541, 549).  An unloaded script is loaded for the event, which
\* runs its top level; the event then goes to the onClicked listener when
\* one is registered, popup.js:554-560, and to nobody otherwise.
ContextMenuClick(item) ==
  /\ item \in menuItems \cap ClickableMenuItems
  /\ UrlIsWatch(tabUrl)
  /\ menuClicks < MaxMenuClicks
  /\ menuClicks' = menuClicks + 1
  /\ bgRunning' = TRUE
  /\ IF bgRunning /\ onClickedListener
       THEN /\ tabInbox' = Append(tabInbox, MenuAction(item))
            /\ UNCHANGED onClickedListener
       ELSE /\ onClickedListener' = FALSE
            /\ UNCHANGED tabInbox
  /\ UNCHANGED <<installedFired, removeAllPending, menuItems, tabUrl,
                 contentVars>>

\* The listener of the content script receives the oldest message sent to
\* the tab, content.js:63-272.
TabMessageReceived ==
  /\ tabInbox # <<>>
  /\ tabInbox' = Tail(tabInbox)
  /\ IF Head(tabInbox) \in QuickActions
       THEN QuickMessage(Head(tabInbox))
       ELSE UnhandledMessage(Head(tabInbox))
  /\ UNCHANGED <<bgRunning, installedFired, removeAllPending, menuItems,
                 onClickedListener, menuClicks>>

InitBackground == Init /\ script = "content"

InBackground == UNCHANGED <<popupVars, renderVars, notice, script>>

NextBackground ==
  \/ InBackground /\ BackgroundStart
  \/ InBackground /\ OnInstalled
  \/ InBackground /\ RemoveAllCallback
  \/ InBackground /\ BackgroundUnload
  \/ InBackground /\ \E item \in ClickableMenuItems : ContextMenuClick(item)
  \/ InBackground /\ TabMessageReceived
  \/ InBackground /\ UNCHANGED backgroundVars
       /\ \E t \in PageTitles(tabUrl) : initialize(t)
  \/ InBackground /\ UNCHANGED backgroundVars
       /\ \E r \in csNet : \E resp \in Responses(QuickPath(r.action)) :
            QuickResponse(r, resp)
  \/ InBackground /\ UNCHANGED backgroundVars /\ CloseButtonClick

SpecBackground == InitBackground /\ [][NextBackground]_vars

\* ------------------------------------------------------------------ claims
\* /api/segment_summary requests in flight for segment s
SegmentFetchesInFlight(s) ==
  {r \in net : r.kind = "segment_summary" /\ r.segmentId = s}

\* C1: in every reachable state at most one /api/segment_summary request is
\* in flight for any given segmentId.
C1_AtMostOneInFlightPerSegment ==
  \A s \in Segs : Cardinality(SegmentFetchesInFlight(s)) <= 1

\* C2: while the request of a first click on a timestamp item is unresolved
\* (the container holds the loading element), no step sends another
\* /api/segment_summary request for that segment, and a second click on the
\* item only toggles the hidden flag of its container.
C2_SecondClickOnlyToggles ==
  [][\A s \in Segs :
       (/\ resultContent.seg[s].content = "pending"
        /\ SegmentFetchesInFlight(s) # {})
       => /\ \A r \in net' \ net :
               ~(r.kind = "segment_summary" /\ r.segmentId = s)
          /\ TimestampItemClick(s) =>
               /\ net' = net
               /\ resultContent' = ToggleHidden(resultContent, s)]_vars

\* C2 witness: the second click has happened while the only request for the
\* segment is still in flight (a pending container is hidden by nothing else).
C2_Witness ==
  \E s \in Segs :
    /\ toolsHidden
    /\ resultContent.seg[s].content = "pending"
    /\ resultContent.seg[s].hidden
    /\ Cardinality(SegmentFetchesInFlight(s)) = 1
    /\ segFetches = 1

\* C3: once the summary of a segment has reached ready, no later step of the
\* session sends a /api/segment_summary request for that segment.
C3_ReadyNeverRefetched ==
  [][\A s \in everReady :
       \A r \in net' \ net :
         ~(r.kind = "segment_summary" /\ r.segmentId = s)]_vars

\* C4: toggling the visibility of a ready or failed segment (a click on its
\* timestamp item or on its Hide Summary / Close button) changes the hidden
\* flag of its container and nothing else: the stored text is kept and no
\* request is sent.
C4_ToggleIsPureDisplay ==
  [][\A s \in Segs :
       (/\ resultContent.seg[s].content \in {"ready", "failed"}
        /\ (TimestampItemClick(s) \/ CloseSummaryBtnClick(s)))
       => /\ net' = net
          /\ segFetches' = segFetches
          /\ resultContent'.seg[s].hidden # resultContent.seg[s].hidden
          /\ resultContent' =
               [resultContent EXCEPT
                  !.seg[s].hidden = resultContent'.seg[s].hidden]]_vars

\* C4 witness: a ready summary has been hidden and its text is still stored.
C4_Witness ==
  \E s \in Segs :
    /\ toolsHidden
    /\ resultContent.seg[s].content = "ready"
    /\ resultContent.seg[s].hidden
    /\ resultContent.seg[s].text = Msg("", 0, "sumA")
    /\ net = {}

\* The order of the summary states of one segment: absent, then pending,
\* then one of ready and failed, and nothing after that.
SummaryStepAllowed(before, after) ==
  \/ after = before
  \/ before.content \in {"none", "empty"} /\ after.content \in {"none", "empty"}
  \/ before.content \in {"none", "empty"} /\ after.content = "pending"
  \/ before.content = "pending" /\ after.content \in {"ready", "failed"}
  \/ /\ before.content \in {"ready", "failed"}
     /\ after.content = before.content
     /\ after.text = before.text

\* C5: the summary state of a segment only moves from absent to pending and
\* then to exactly one of ready or failed; a ready or failed entry never
\* becomes pending, absent or the other terminal state.
C5_SummaryStateNeverReverts ==
  [][\A s \in Segs :
       SummaryStepAllowed(resultContent.seg[s], resultContent'.seg[s])]_vars

\* Responses with a non-success HTTP status
NonSuccessStatusResponses(path) ==
  {resp \in Responses(path) : resp.net /\ ~ResponseOk(resp.code)}

\* The message names the status code
MsgHasCode(msg, code) == msg.code = code

\* C6: for every endpoint, a response with a non-success HTTP status ends the
\* request in the error state with a message that contains the status code,
\* whatever the body is.
C6_NonSuccessStatusIsError ==
  [][\A r \in net \ net' : \A resp \in NonSuccessStatusResponses(RequestPath(r)) :
       /\ (FeatureResponse(r, resp) \/ KeypointsWikiResponse(r, resp))
            => /\ resultContent'.kind = "error"
               /\ MsgHasCode(resultContent'.msg, resp.code)
       /\ SegmentSummaryResponse(r, resp)
            => /\ resultContent'.seg[r.segmentId].content = "failed"
               /\ MsgHasCode(resultContent'.seg[r.segmentId].text, resp.code)
    ]_vars

\* HTTP-success responses whose JSON body has a status other than "success"
NonSuccessBodyResponses(path) ==
  {resp \in Responses(path) :
     resp.net /\ ResponseOk(resp.code) /\ resp.json
       /\ resp.body.status # "success"}

\* C7: a response body whose status field is anything other than "success"
\* ends the request in the error state, the message being the body's error
\* field or the generic unknown-error message; it is never rendered as a
\* successful result.
C7_NonSuccessBodyIsError ==
  [][\A r \in net \ net' : \A resp \in NonSuccessBodyResponses(RequestPath(r)) :
       (FeatureResponse(r, resp) \/ KeypointsWikiResponse(r, resp))
         => /\ resultContent'.kind = "error"
            /\ resultContent'.msg = BodyErrorMsg(resp.body)]_vars

\* HTTP-success responses with body {status: "error", error: m}
IsErrorBodyResponse(resp) ==
  /\ resp.net /\ ResponseOk(resp.code) /\ resp.json
  /\ resp.body.status = "error" /\ resp.body.error # "absent"

TimestampsErrorBodyResponses ==
  {resp \in TimestampsResponses : IsErrorBodyResponse(resp)}

OtherErrorBodyResponses ==
  {resp \in OtherResponses : IsErrorBodyResponse(resp)}

ErrorBodyResponses(path) ==
  IF path = "/api/timestamps" THEN TimestampsErrorBodyResponses
  ELSE OtherErrorBodyResponses

\* The request r ends in the error state with message text m: the panel
\* shows the error, and nothing is sent in place of r.
EndsInError(r, m) ==
  /\ resultContent' = ErrorPanel(Msg("", 0, m))
  /\ net' = net \ {r}

\* The quick request r of the content script ends with message text m on
\* display: an overlay on the page shows the error, and nothing is sent in
\* place of r.
QuickEndsInError(r, m) ==
  /\ csNet' = csNet \ {r}
  /\ overlay' = [overlay EXCEPT !.kind = "error",
                                !.msg = Msg(QuickErrorPrefix(r.action), 0, m)]

\* The message C8 amended expects for a body whose error field is m
MOrGeneric(m) == IF m = "" THEN UnknownError ELSE m

\* C8 as stated: a body {status: "error", error: m} ends the feature request
\* in the error state with message exactly m, for every m.
C8_ErrorMessageExactlyM ==
  [][/\ \A r \in net \ net' : \A resp \in ErrorBodyResponses(RequestPath(r)) :
          (FeatureResponse(r, resp) \/ KeypointsWikiResponse(r, resp))
            => EndsInError(r, resp.body.error)
     /\ \A r \in csNet \ csNet' : \A resp \in OtherErrorBodyResponses :
          (QuickResponse(r, resp) /\ overlay.present)
            => QuickEndsInError(r, resp.body.error)]_vars

\* C8 amended: a body {status: "error", error: m} ends the feature request
\* in the error state, without retry, with message exactly m when m is not
\* empty and with the generic unknown-error message when m is empty; in the
\* content script the message is displayed when an overlay is on the page,
\* and nothing is displayed when there is none.
C8_ErrorMessageMOrGeneric ==
  [][/\ \A r \in net \ net' : \A resp \in ErrorBodyResponses(RequestPath(r)) :
          (FeatureResponse(r, resp) \/ KeypointsWikiResponse(r, resp))
            => EndsInError(r, MOrGeneric(resp.body.error))
     /\ \A r \in csNet \ csNet' : \A resp \in OtherErrorBodyResponses :
          QuickResponse(r, resp)
            => /\ csNet' = csNet \ {r}
               /\ overlay.present
                    => QuickEndsInError(r, MOrGeneric(resp.body.error))
               /\ ~overlay.present => overlay' = overlay]_vars

\* C8 witness: a backend-supplied message is on display and nothing is in
\* flight, in the popup or on the page.
C8_Witness ==
  \/ /\ toolsHidden
     /\ resultContent = ErrorPanel(Msg("", 0, "quota exceeded"))
     /\ net = {}
  \/ /\ overlay.present /\ overlay.kind = "error"
     /\ overlay.msg.text = "quota exceeded"
     /\ csNet = {}

\* The card click d was accepted and nothing of it is still under way.
DispatchComplete(d) ==
  /\ reqCount[d] > 0
  /\ \A v \in verifying : v.dispatch # d
  /\ \A r \in net : r.dispatch # d

\* C9: each feature dispatch sends exactly one POST request and produces
\* exactly one terminal result; no request is re-sent.
C9_OneRequestOneResult ==
  \A d \in Dispatches :
    /\ reqCount[d] <= 1
    /\ resultCount[d] <= 1
    /\ DispatchComplete(d) => reqCount[d] = 1 /\ resultCount[d] = 1

\* Requests of card clicks in flight for one (feature, video identifier)
FeatureFetchesInFlight(feature, videoId) ==
  {r \in net : r.dispatch > 0 /\ r.feature = feature /\ r.videoId = videoId}

\* C10: in the popup at most one request is in flight for the same
\* (feature, video identifier) pair at any time.
C10_AtMostOneInFlightPerFeature ==
  \A f \in Features : \A v \in VideoIds :
    Cardinality(FeatureFetchesInFlight(f, v)) <= 1

\* C11: the outcome of a feature request is written to the result panel only
\* while that feature is the selected one, and the outcome of a quick
\* request is written only to the overlay that was opened for its kind of
\* result: a response for another feature leaves the display as it is.
C11_OutcomeOnlyWhileSelected ==
  [][/\ \A r \in net \ net' :
          (r.dispatch > 0 /\ r.feature # featureTitle)
            => resultContent' = resultContent
     /\ \A r \in csNet \ csNet' :
          (overlay.present /\ overlay.resultType # ResultType(r.action))
            => overlay' = overlay]_vars

\* C12: initialize() on a watch page without a title element sets the title
\* to "YouTube Video" and runs to completion (no error, the observer is
\* installed, the loaded flag is set), and getVideoDetails then answers with
\* that title.
C12_InitializeWithoutTitleCompletes ==
  [][/\ (initialize("none") /\ UrlIsWatch(tabUrl))
          => /\ csCurrentVideoTitle' = DefaultTitle
             /\ csInit' = "done"
             /\ observing'
             /\ loaded'
     /\ (GetVideoDetailsMessage("none") /\ csCurrentVideoTitle = DefaultTitle)
          => /\ lastReply'.responses = 1
             /\ lastReply'.title = DefaultTitle]_vars

\* C13: once the document has mutated after the navigations so far, the
\* tracked identifier is the v parameter of the current URL and, on a watch
\* page, the tracked title is that page's title or the default one.
C13_TrackedVideoFollowsUrl ==
  (mutated /\ csInit # "pending")
    => /\ csCurrentVideoId = UrlVideoParam(tabUrl)
       /\ UrlIsWatch(tabUrl)
            => csCurrentVideoTitle \in {TitleOf(tabUrl), DefaultTitle}

\* C15: no request in flight, of the popup or of the content script, carries
\* an absent video identifier.
C15_NoRequestWithoutVideoId ==
  /\ \A r \in net : r.videoId # NoVideo
  /\ \A r \in csNet : r.videoId # NoVideo

\* C17: every message of the six actions is answered exactly once, and a
\* quickTimestamps message is answered with status processing.
C17_EveryMessageAnsweredOnce ==
  lastReply.action # ""
    => /\ lastReply.responses = 1
       /\ lastReply.action = "quickTimestamps"
            => lastReply.status = "processing"

\* C18: a navigateToTime message is never answered with an error status.
C18_NavigateWithoutVideoIsNoError ==
  lastReply.action = "navigateToTime" => lastReply.status # "error"

\* Fields the HTTP contract lists for a path
ContractFields(path) ==
  CASE path = "/api/keypoints_wiki" -> {"videoId", "numPoints"}
    [] path = "/api/summarize" -> {"videoId", "minLength", "maxLength"}
    [] path = "/api/segment_summary" -> {"videoId", "segmentId"}
    [] OTHER -> {"videoId"}

\* C20: every request in flight carries the fields the HTTP contract lists
\* for its path.
C20_RequestCarriesContractFields ==
  /\ \A r \in net : ContractFields(RequestPath(r)) \subseteq RequestFields(r)
  /\ \A r \in csNet :
       ContractFields(QuickPath(r.action)) \subseteq QuickFields(r.action)

C16_ItemsReadBackAsSent ==
  /\ timestampItems # <<>> => Len(timestampItems) = Len(timestamps)
  /\ clicked.index # 0
       => /\ clicked.segmentId = timestamps[clicked.index].segment_id
          /\ clicked.time = timestamps[clicked.index].time

\* C16 witness: the second item of a response, with a fractional start time,
\* was clicked.
C16_Witness ==
  /\ Len(timestampItems) = 2
  /\ clicked.index = 2
  /\ clicked.time = 125
  /\ clicked.segmentId = 0

\* C19: in a step in which no response arrives, the display of a request in
\* flight stays in its loading state: the result panel of the current card
\* click stays loading, the notice of a card click stays at its processing
\* text, and the request is not sent again.
C19_UnansweredStaysLoading ==
  [][net \subseteq net'
       => \A d \in Dispatches :
            (\E r \in net : r.dispatch = d)
              => /\ notice[d] = "processing" => notice'[d] = "processing"
                 /\ (d = cardClicks /\ d = cardClicks'
                       /\ resultContent.kind = "loading")
                      => resultContent'.kind = "loading"
                 /\ reqCount'[d] = reqCount[d]]_vars

\* The popup has no video identifier to work on: the tab is not a watch
\* page, the tab query has not called back, or the URL has no v parameter.
NoVideoResolved ==
  ~UrlIsWatch(tabUrl) \/ ~tabQueried \/ UrlVideoParam(tabUrl) = NoVideo

\* C21: while the tab is not a watch page or no video identifier has been
\* resolved, a card click sends no HTTP request and no message to the tab,
\* and the popup stays on the tools grid.
C21_NoClickWithoutVideo ==
  [][\A f \in Features :
       (NoVideoResolved /\ CardClick(f))
         => /\ net' = net
            /\ verifying' = verifying
            /\ reqCount' = reqCount
            /\ ~toolsHidden'
            /\ resultContent' = resultContent]_vars

\* C21 witness: cards were clicked on a watch page whose URL has no v
\* parameter, after the tab query has called back.
C21_Witness ==
  /\ script = "popup"
  /\ tabUrl = "watch_no_v"
  /\ tabQueried
  /\ cardClicks = MaxCardClicks
  /\ ~toolsHidden
  /\ net = {} /\ verifying = {}

\* C22: at most one quick-result overlay is on the page in every reachable
\* state, and a backend response never creates one.
C22_AtMostOneOverlay ==
  /\ [](overlay.count \in {0, 1})
  /\ [][\A r \in csNet \ csNet' : overlay'.count = overlay.count]_vars

\* C22 witness: a second quick message was received while the overlay of
\* the first was on the page, and one overlay is there.
C22_Witness ==
  /\ messages = 2
  /\ lastReply.action \in QuickActions
  /\ Cardinality(csNet) = 2
  /\ overlay.count = 1

\* C23: a response that arrives after its display target was removed (the
\* segment summary element of the popup, the overlay of the page) is
\* dropped: what is displayed is unchanged and no error is left unhandled.
C23_LateResponseDropped ==
  [][/\ \A r \in net \ net' : \A resp \in Responses(RequestPath(r)) :
          (/\ SegmentSummaryResponse(r, resp)
           /\ ~HasSummaryElement(resultContent, r.segmentId))
            => /\ resultContent' = resultContent
               /\ ~SegmentSummaryUnhandled(resultContent, r.segmentId, resp)
     /\ \A r \in csNet \ csNet' :
          ~overlay.present => overlay' = overlay]_vars

\* C24: every click on the Quick Summarize or Generate Timestamps item
\* sends the item's message to the tab, whether or not the background
\* script was unloaded in between, and the content script starts the
\* matching request when it receives the message.
C24_MenuClickStartsRequest ==
  [][/\ \A item \in ClickableMenuItems :
          ContextMenuClick(item)
            => tabInbox' = Append(tabInbox, MenuAction(item))
     /\ (tabInbox # <<>> /\ TabMessageReceived)
          => \E r \in csNet' \ csNet :
               /\ Head(tabInbox) = "quickSummarize"
                    => r.action = "quickSummarize"
               /\ Head(tabInbox) = "quickTimestamps"
                    => r.action = "quickTimestamps"]_vars

\* C25: in the fallback path the notice on the page shows "Analysis
\* complete!" only after the feature request of its card click has resolved
\* successfully: never while the request is in flight, never after it has
\* failed.
C25_CompleteOnlyAfterSuccess ==
  \A d \in Dispatches :
    notice[d] = "complete"
      => /\ \A r \in net : r.dispatch # d
         /\ resultCount[d] = 1
         /\ d = cardClicks => resultContent.kind \notin {"loading", "error"}

====
